---- MODULE Spec2Model ----
(***************************************************************************)
(* A model of holopy's fitting core (src/holopy/analyze/fit_new.py) and of *)
(* the scatterer geometry (src/holopy/scattering/scatterer/scatterer.py).  *)
(*                                                                         *)
(* The specifications share the module, one per component:                 *)
(*   SpecParam  Parameter.__init__, Parameter.scale, Parameter.unscale     *)
(*   SpecFit    fit(), Model.cost_func, Minimizer.minimize                 *)
(*   SpecScat   Scatterer.__init__, in_domain, index_at                    *)
(*   SpecFlat   CenteredScatterer.parameters, from_parameters              *)
(*   SpecTrans  Scatterer.translated                                       *)
(*   SpecMake   Model.make_scatterer_from_par_values                       *)
(*   SpecVox    Scatterer.voxelate                                         *)
(*   SpecBounds find_bounds                                                *)
(***************************************************************************)
EXTENDS Integers, Sequences, FiniteSets, TLC

VARIABLES
    par,         \* SpecParam: the last Parameter(...) call: arguments, outcome
    calc,        \* SpecParam: the last scale/unscale call on that Parameter
    parameters,  \* SpecFit: model.parameters, the list the caller has built
    model,       \* SpecFit: the other fields of the Model handed to fit()
    algorithm,   \* SpecFit: Minimizer.algorithm
    pc,          \* SpecFit: where fit() is: idle, solving, returned, raised
    nmp_pars,    \* SpecFit: the solver configuration entries built so far
    exc,         \* SpecFit: the exception fit() raised, "none" otherwise
    solverCalls, \* SpecFit: how often nmpfit.mpfit has been invoked
    costCalls,   \* SpecFit: how often the cost closure has been invoked
    min_ret,     \* SpecFit: what Minimizer.minimize returned
    result,      \* SpecFit: the FitResult fit() returned
    scat,        \* SpecScat: the Scatterer under test
    query,       \* SpecScat: the last in_domain / index_at call
    flat,        \* SpecFlat: a CenteredScatterer, its parameters, the rebuild
    tr,          \* SpecTrans: the translated(...) calls made so far
    mk,          \* SpecMake: the last make_scatterer_from_par_values call
    vox,         \* SpecVox: the last voxelate call
    fb           \* SpecBounds: find_bounds' locals

paramVars == <<par, calc>>
fitVars == <<parameters, model, algorithm, pc, nmp_pars, exc, solverCalls,
             costCalls, min_ret, result>>
scatVars == <<scat, query>>
extVars == <<flat, tr, mk, vox, fb>>
vars == <<par, calc, parameters, model, algorithm, pc, nmp_pars, exc,
          solverCalls, costCalls, min_ret, result, scat, query,
          flat, tr, mk, vox, fb>>

(***************************************************************************)
(* Bounds of the model.                                                    *)
(***************************************************************************)
\* guesses, limit sides and scale/unscale arguments range over 0..MaxVal
MaxVal == 1
\* solver status codes range over -MaxNegStatus..MaxStatus
MaxNegStatus == 1
MaxStatus == 5
\* the solver evaluates the residual at most MaxEvals times
MaxEvals == 2
\* point coordinates range over 0..MaxCoord
MaxCoord == 1
\* a scatterer has at most MaxDomains indicators
MaxDomains == 2

(***************************************************************************)
(* Python values.  Every value is a record [k, n, d, np]:                  *)
(*   k = "None"  the absent value                                          *)
(*   k = "num"   the number n/d, d > 0, in lowest terms; np = FALSE for a  *)
(*               Python number, TRUE for a numpy float64                   *)
(*   k = "inf"   numpy's +inf (n = 1) or -inf (n = -1)                     *)
(*   k = "nan"   numpy's nan                                               *)
(*   any other k: the expression raised the exception k                    *)
(* Arithmetic is exact (rationals), so the model shows what the formulas   *)
(* do, not what rounding adds to it.                                       *)
(***************************************************************************)
None == [k |-> "None", n |-> 0, d |-> 1, np |-> FALSE]
NaN == [k |-> "nan", n |-> 0, d |-> 1, np |-> TRUE]
Inf(s) == [k |-> "inf", n |-> s, d |-> 1, np |-> TRUE]
Raised(e) == [k |-> e, n |-> 0, d |-> 1, np |-> FALSE]

Abs(i) == IF i < 0 THEN 0 - i ELSE i
Sign(i) == IF i < 0 THEN 0 - 1 ELSE IF i = 0 THEN 0 ELSE 1

RECURSIVE Gcd(_, _)
Gcd(a, b) == IF b = 0 THEN a ELSE Gcd(b, a % b)

\* the number n/d (d /= 0) in lowest terms
Rat(n, d, np) ==
    LET g == Gcd(Abs(n), Abs(d))
    IN  [k |-> "num", n |-> Sign(d) * (n \div g), d |-> Abs(d) \div g, np |-> np]

Num(i) == Rat(i, 1, FALSE)

IsNone(v) == v.k = "None"
IsNum(v) == v.k = "num"
IsValue(v) == v.k \in {"None", "num", "inf", "nan"}
IsError(v) == ~IsValue(v)
\* same number, whatever its Python type
NumEq(a, b) == a.k = b.k /\ a.n = b.n /\ a.d = b.d

\* a * b
Mul(a, b) ==
    IF IsError(a) THEN a
    ELSE IF IsError(b) THEN b
    ELSE IF IsNone(a) \/ IsNone(b) THEN Raised("TypeError")
    ELSE IF a.k = "nan" \/ b.k = "nan" THEN NaN
    ELSE IF a.k = "inf" \/ b.k = "inf"
         THEN IF a.n = 0 \/ b.n = 0 THEN NaN ELSE Inf(Sign(a.n) * Sign(b.n))
    ELSE Rat(a.n * b.n, a.d * b.d, a.np \/ b.np)

\* a / b under "from __future__ import division"
Div(a, b) ==
    IF IsError(a) THEN a
    ELSE IF IsError(b) THEN b
    ELSE IF IsNone(a) \/ IsNone(b) THEN Raised("TypeError")
    ELSE IF a.k = "nan" \/ b.k = "nan" THEN NaN
    ELSE IF b.k = "inf" THEN IF a.k = "inf" THEN NaN ELSE Rat(0, 1, TRUE)
    ELSE IF a.k = "inf" THEN Inf(a.n * (IF b.n < 0 THEN 0 - 1 ELSE 1))
    ELSE IF b.n = 0
         THEN IF a.np \/ b.np
              THEN (IF a.n = 0 THEN NaN ELSE Inf(Sign(a.n)))
              ELSE Raised("ZeroDivisionError")
    ELSE Rat(a.n * b.d, a.d * b.n, a.np \/ b.np)

\* np.sqrt of a non-negative integer that is a perfect square
IsSquare(i) == \E r \in 0..i : r * r = i
NpSqrt(v) ==
    IF ~IsNum(v) THEN v
    ELSE IF v.n < 0 THEN NaN
    ELSE Rat(CHOOSE r \in 0..v.n : r * r = v.n, 1, TRUE)

\* np.array(x): the same number as a numpy value
NpArray(v) == IF IsNum(v) THEN [v EXCEPT !.np = TRUE] ELSE v

Vals == 0..MaxVal
OptVals == {None} \cup {Num(i) : i \in Vals}

(***************************************************************************)
(* Parameter (fit_new.py, class Parameter)                                 *)
(***************************************************************************)
ParNames == {"r", "alpha"}

\* limit is None, or a pair (lo, hi) in which one side may be None
NoLimit == [given |-> FALSE, lo |-> None, hi |-> None]
Limit(lo, hi) == [given |-> TRUE, lo |-> lo, hi |-> hi]
Limits ==
    {NoLimit}
    \cup {Limit(lo, hi) : lo \in OptVals \ {None}, hi \in OptVals}
    \cup {Limit(None, hi) : hi \in OptVals \ {None}}

\* ScaleFactorOf with a fault: it looks at the limit before the guess
ScaleFactorOf_LimitFirst(guess, limit) ==
    IF limit.given THEN NpSqrt(Mul(limit.lo, limit.hi))
    ELSE IF ~IsNone(guess) THEN guess
    ELSE Raised("InvalidParameterSpecification")

\* Parameter.__init__, lines 197-204: the scale factor, or what is raised
ScaleFactorOf(guess, limit) ==
    IF ~IsNone(guess) THEN guess
    ELSE IF limit.given THEN NpSqrt(Mul(limit.lo, limit.hi))
    ELSE Raised("InvalidParameterSpecification")

\* Parameter.__init__: the call's arguments and outcome; the object exists
\* when exc = "none"
ParameterInit(name, guess, limit) ==
    LET sf == ScaleFactorOf(guess, limit)
    IN  [name |-> name, guess |-> guess, limit |-> limit,
         scale_factor |-> IF IsError(sf) THEN None ELSE sf,
         exc |-> IF IsError(sf) THEN sf.k ELSE "none"]

NoParameter ==
    [name |-> "", guess |-> None, limit |-> NoLimit, scale_factor |-> None,
     exc |-> "nocall"]

\* the square root of a limit pair's product is a rational the model can hold
Representable(guess, limit) ==
    (IsNone(guess) /\ limit.given /\ IsNum(limit.lo) /\ IsNum(limit.hi))
        => IsSquare(limit.lo.n * limit.hi.n)

\* Parameter.scale
scale(p, physical) == Div(physical, p.scale_factor)

\* Parameter.unscale
unscale(p, scaled) == Mul(scaled, p.scale_factor)

NoCalc == [op |-> "none", arg |-> None, res |-> None, src |-> None]

\* p = Parameter(name, guess, limit)
NewParameter ==
    \E name \in ParNames, guess \in OptVals, limit \in Limits :
        /\ Representable(guess, limit)
        /\ par' = ParameterInit(name, guess, limit)
        /\ calc' = NoCalc
        /\ UNCHANGED <<fitVars, scatVars, extVars>>

\* the arguments of a scale/unscale call: a fresh number, or the result of
\* the call before it when that was the other operation
CallArgs(op) ==
    {[arg |-> Num(i), src |-> None] : i \in Vals}
    \cup (IF calc.op \notin {"none", op} /\ IsNone(calc.src)
             /\ IsValue(calc.res) /\ ~IsNone(calc.res)
          THEN {[arg |-> calc.res, src |-> calc.arg]} ELSE {})

\* p.scale(x)
ScaleCall ==
    /\ par.exc = "none"
    /\ \E a \in CallArgs("scale") :
        calc' = [op |-> "scale", arg |-> a.arg, res |-> scale(par, a.arg),
                 src |-> a.src]
    /\ UNCHANGED <<par, fitVars, scatVars, extVars>>

\* p.unscale(x)
UnscaleCall ==
    /\ par.exc = "none"
    /\ \E a \in CallArgs("unscale") :
        calc' = [op |-> "unscale", arg |-> a.arg, res |-> unscale(par, a.arg),
                 src |-> a.src]
    /\ UNCHANGED <<par, fitVars, scatVars, extVars>>

(***************************************************************************)
(* Minimizer.minimize and fit (fit_new.py)                                 *)
(***************************************************************************)
Algorithms == {"nmpfit", "leastsq"}
\* model.theory is a factory (a class) or an already-constructed instance
TheoryKinds == {"factory", "instance"}
\* the argument names of model.make_scatterer
MakeArgSets == {{"r"}, {"r", "n"}}
\* what the scattering theory may raise from calc_holo (scattering/errors.py)
TheoryErrors ==
    {"ScattererDefinitionError", "UnrealizableScatterer",
     "TheoryNotCompatibleError"}
StatusCodes == (0 - MaxNegStatus)..MaxStatus

NoModel == [theory |-> "factory", make_args |-> {}]
NoReturn == [returned |-> FALSE, converged |-> FALSE, status |-> 0]
NoResult == [fields |-> {}, converged |-> FALSE, alpha |-> FALSE]

\* the first exception among a sequence of evaluations, "none" without one
RECURSIVE FirstError(_)
FirstError(vs) ==
    IF vs = <<>> THEN "none"
    ELSE IF IsError(Head(vs)) THEN Head(vs).k
    ELSE FirstError(Tail(vs))

\* minimize, lines 171-175: d['limited'].  Line 172 scales each side and
\* tests the quotient against None, so a side that is None raises.
LimitedFlags(p) ==
    IF p.limit.given
    THEN LET scaled == <<scale(p, p.limit.lo), scale(p, p.limit.hi)>>
         IN  [exc |-> FirstError(scaled),
              flags |-> <<~IsNone(scaled[1]), ~IsNone(scaled[2])>>]
    ELSE [exc |-> "none", flags |-> <<FALSE, FALSE>>]

\* minimize, lines 170-182: the entry of one parameter, or what is raised
BuildEntry(p) ==
    LET lim == LimitedFlags(p)
        limits == IF p.limit.given
                  THEN <<scale(p, NpArray(p.limit.lo)),
                         scale(p, NpArray(p.limit.hi))>>
                  ELSE <<>>
        value == IF ~IsNone(p.guess) THEN scale(p, p.guess)
                 ELSE Raised("InvalidParameterSpecification")
        raised == IF lim.exc /= "none" THEN lim.exc
                  ELSE IF FirstError(limits) /= "none" THEN FirstError(limits)
                  ELSE IF IsError(value) THEN value.k
                  ELSE "none"
    IN  [exc |-> raised,
         d |-> [parname |-> p.name, limited |-> lim.flags,
                limits |-> limits, value |-> value]]

\* minimize, lines 163-182: the loop over the parameters, stopped by the
\* first exception
RECURSIVE BuildAll(_, _)
BuildAll(ps, acc) ==
    IF ps = <<>> THEN [exc |-> "none", entries |-> acc]
    ELSE LET e == BuildEntry(Head(ps))
         IN  IF e.exc /= "none" THEN [exc |-> e.exc, entries |-> acc]
             ELSE BuildAll(Tail(ps), Append(acc, e.d))

\* Converged with a fault: it counts status 4 as converged
Converged_OffByOne(status) == status <= 4

\* minimize, line 184
Converged(status) == status < 4

\* the names of the model's parameters
RECURSIVE NamesOf(_)
NamesOf(ps) == IF ps = <<>> THEN {} ELSE {Head(ps).name} \cup NamesOf(Tail(ps))

\* Model.make_scatterer_from_par_values, lines 112-113: all_pars[arg] raises
\* KeyError for an argument name that is no parameter's name
MakeScattererError(ps, m) ==
    IF m.make_args \subseteq NamesOf(ps) THEN "none" ELSE "KeyError"

\* FitResult.__init__, lines 59-67
FitResultFields ==
    {"scatterer", "alpha", "chisq", "rsq", "converged", "time", "model",
     "minimizer", "minimization_details"}

\* the caller builds model.parameters: one more Parameter, its name unused
AddParameter ==
    /\ pc = "idle"
    /\ \E name \in ParNames \ NamesOf(parameters),
          guess \in OptVals, limit \in Limits :
        LET p == ParameterInit(name, guess, limit)
        IN  /\ Representable(guess, limit)
            /\ p.exc = "none"
            /\ parameters' = Append(parameters, p)
    /\ UNCHANGED <<model, algorithm, pc, nmp_pars, exc, solverCalls,
                   costCalls, min_ret, result, paramVars, scatVars, extVars>>

\* fit(model, data, algorithm), lines 38-41, up to the solver's first step:
\* Minimizer(algorithm), model.cost_func(data), minimizer.minimize(...)
FitCall ==
    /\ pc = "idle"
    /\ \E alg \in Algorithms, th \in TheoryKinds, args \in MakeArgSets :
        LET built == BuildAll(parameters, <<>>)
        IN  /\ algorithm' = alg
            /\ model' = [theory |-> th, make_args |-> args]
            /\ IF alg /= "nmpfit"
               THEN \* minimize returns None; line 41 unpacks it
                    /\ pc' = "raised"
                    /\ exc' = "TypeError"
                    /\ UNCHANGED <<nmp_pars, solverCalls>>
               ELSE IF built.exc /= "none"
               THEN /\ pc' = "raised"
                    /\ exc' = built.exc
                    /\ nmp_pars' = built.entries
                    /\ UNCHANGED solverCalls
               ELSE IF parameters = <<>>
               THEN \* line 183: resid_wrapper was never bound
                    /\ pc' = "raised"
                    /\ exc' = "UnboundLocalError"
                    /\ UNCHANGED <<nmp_pars, solverCalls>>
               ELSE /\ pc' = "solving"
                    /\ nmp_pars' = built.entries
                    /\ solverCalls' = solverCalls + 1
                    /\ UNCHANGED exc
    /\ UNCHANGED <<parameters, costCalls, min_ret, result, paramVars,
                   scatVars, extVars>>

\* the solver evaluates resid_wrapper(p): cost(par_values), lines 136-141
CostEval ==
    /\ pc = "solving"
    /\ costCalls < MaxEvals
    /\ costCalls' = costCalls + 1
    /\ IF MakeScattererError(parameters, model) /= "none"
       THEN /\ pc' = "raised"
            /\ exc' = MakeScattererError(parameters, model)
       ELSE \/ UNCHANGED <<pc, exc>>
            \/ \E e \in TheoryErrors : pc' = "raised" /\ exc' = e
    /\ UNCHANGED <<parameters, model, algorithm, nmp_pars, solverCalls,
                   min_ret, result, paramVars, scatVars, extVars>>

\* nmpfit.mpfit returns with a status; minimize returns (lines 184-185) and
\* fit runs on to its end (lines 43-54)
SolverReturn ==
    /\ pc = "solving"
    /\ \E status \in StatusCodes, callable \in BOOLEAN, e \in TheoryErrors \cup {"none"} :
        LET converged == Converged(status)
            raised ==
                IF MakeScattererError(parameters, model) /= "none"
                THEN MakeScattererError(parameters, model)
                ELSE IF model.theory = "instance" /\ ~callable
                THEN "TypeError"
                ELSE e
        IN  /\ min_ret' = [returned |-> TRUE, converged |-> converged,
                           status |-> status]
            /\ IF raised /= "none"
               THEN /\ pc' = "raised"
                    /\ exc' = raised
                    /\ UNCHANGED result
               ELSE /\ pc' = "returned"
                    /\ result' = [fields |-> FitResultFields,
                                  converged |-> converged,
                                  alpha |-> "alpha" \in NamesOf(parameters)]
                    /\ UNCHANGED exc
    /\ UNCHANGED <<parameters, model, algorithm, nmp_pars, solverCalls,
                   costCalls, paramVars, scatVars, extVars>>

(***************************************************************************)
(* Scatterer and Indicators (scatterer.py)                                 *)
(***************************************************************************)
Coords == 0..MaxCoord
Points == Coords \X Coords \X Coords
Centers == {<<0, 0, 0>>, <<1, 0, 0>>, <<1, 1, 1>>}

\* An indicator function is a cube of half-width r whose middle lies at
\* (cx, 0, 0), in coordinates relative to the scatterer's center.
IndicatorFns ==
    {[cx |-> 0, r |-> 0], [cx |-> 0, r |-> 1],
     [cx |-> 1, r |-> 0], [cx |-> 1, r |-> 1]}

\* a refractive index re + im*j
Cx(re, im) == [re |-> re, im |-> im]
IndexValues == {Cx(1, 0), Cx(2, 1)}
Backgrounds == {Cx(0, 0), Cx(3, 1)}

\* the sequences over S of length 1..m
SeqsUpTo(S, m) == UNION {[1..l -> S] : l \in 1..m}

\* test(points) of one indicator function at one relative point
Test(ind, q) ==
    /\ Abs(q[1] - ind.cx) <= ind.r
    /\ Abs(q[2]) <= ind.r
    /\ Abs(q[3]) <= ind.r

\* points - self.center
Minus(pt, c) == <<pt[1] - c[1], pt[2] - c[2], pt[3] - c[3]>>

\* Indicators.__call__, line 371: every function's answer, in list order
IndicatorsCall(functions, q) ==
    [i \in 1..Len(functions) |-> Test(functions[i], q)]

\* Overwrite with a fault: it walks the list forwards, so that the last
\* true indicator wins
RECURSIVE Overwrite_Forward(_, _, _)
Overwrite_Forward(tests, i, domain) ==
    IF i = 0 THEN domain
    ELSE LET k == Len(tests) + 1 - i
         IN  Overwrite_Forward(tests, i - 1, IF tests[k] THEN k ELSE domain)

\* in_domain, lines 137-138: the list walked in reverse, each true indicator
\* overwriting the domain with its position + 1 (i here is that position + 1)
RECURSIVE Overwrite(_, _, _)
Overwrite(tests, i, domain) ==
    IF i = 0 THEN domain
    ELSE Overwrite(tests, i - 1, IF tests[i] THEN i ELSE domain)

\* Scatterer.in_domain at one point (points.ndim == 1, reshaped to (1, 3))
in_domain(s, pt) ==
    LET tests == IndicatorsCall(s.indicators, Minus(pt, s.center))
    IN  Overwrite(tests, Len(tests), 0)

\* np.iscomplex
IsComplex(v) == v.im /= 0

\* a value stored into an array of the given dtype
Cast(dtype, v) == IF dtype = "float" THEN Cx(v.re, 0) ELSE v

\* Fill with a fault: it compares the domain with the list position
RECURSIVE Fill_OffByOne(_, _, _, _, _)
Fill_OffByOne(ns, i, domain, dtype, index) ==
    IF i > Len(ns) THEN index
    ELSE Fill_OffByOne(ns, i + 1, domain, dtype,
                       IF domain = i - 1 THEN Cast(dtype, ns[i]) ELSE index)

\* index_at, lines 100-101: index[domains == i+1] = n (i here is i+1 there)
RECURSIVE Fill(_, _, _, _, _)
Fill(ns, i, domain, dtype, index) ==
    IF i > Len(ns) THEN index
    ELSE Fill(ns, i + 1, domain, dtype,
              IF domain = i THEN Cast(dtype, ns[i]) ELSE index)

\* Scatterer.index_at at one point
index_at(s, pt, background) ==
    LET domain == in_domain(s, pt)
        dtype == IF IsComplex(background)
                    \/ \E i \in 1..Len(s.n) : IsComplex(s.n[i])
                 THEN "complex" ELSE "float"
    IN  [dtype |-> dtype,
         v |-> Fill(s.n, 1, domain, dtype, Cast(dtype, background))]

NoScatterer == [exists |-> FALSE, indicators |-> <<>>, n |-> <<>>,
                center |-> <<0, 0, 0>>]
NoQuery == [op |-> "none", point |-> <<0, 0, 0>>, background |-> Cx(0, 0),
            domain |-> 0, dtype |-> "float", index |-> Cx(0, 0)]

\* Scatterer(indicators, n, center), lines 57-61; the Indicators carry
\* their bound, n is one value per domain or a single value
NewScatterer ==
    /\ ~scat.exists
    /\ \E inds \in SeqsUpTo(IndicatorFns, MaxDomains), c \in Centers :
        \E ns \in [1..Len(inds) -> IndexValues] \cup [1..1 -> IndexValues] :
            scat' = [exists |-> TRUE, indicators |-> inds, n |-> ns,
                     center |-> c]
    /\ query' = NoQuery
    /\ UNCHANGED <<paramVars, fitVars, extVars>>

\* scatterer.in_domain(point); the call reads the scatterer and changes
\* nothing, so one call per scatterer shows all it can do
InDomainCall ==
    /\ scat.exists
    /\ query.op = "none"
    /\ \E pt \in Points :
        query' = [NoQuery EXCEPT !.op = "in_domain", !.point = pt,
                                 !.domain = in_domain(scat, pt)]
    /\ UNCHANGED <<scat, paramVars, fitVars, extVars>>

\* scatterer.index_at(point, background)
IndexAtCall ==
    /\ scat.exists
    /\ query.op = "none"
    /\ \E pt \in Points, bg \in Backgrounds :
        LET r == index_at(scat, pt, bg)
        IN  query' = [op |-> "index_at", point |-> pt, background |-> bg,
                      domain |-> in_domain(scat, pt), dtype |-> r.dtype,
                      index |-> r.v]
    /\ UNCHANGED <<scat, paramVars, fitVars, extVars>>

(***************************************************************************)
(* CenteredScatterer.parameters / from_parameters (scatterer.py)           *)
(*                                                                         *)
(* An attribute value is a record [t, v]: a number ("scalar", <<i>>), a    *)
(* Python complex ("complex", <<re, im>>), a list of numbers ("list"), a   *)
(* mapping ("dict", a sequence of <<key, value>> pairs in key order), a    *)
(* prior.ComplexPrior ("cprior", <<real, imag>>) or None ("none").  A key  *)
(* of the flat mapping is a sequence of tokens: the attribute's name, then *)
(* a delimiter and a sub-key where the attribute was expanded.             *)
(***************************************************************************)
Sc(i) == [t |-> "scalar", v |-> <<i>>]
Complex(re, im) == [t |-> "complex", v |-> <<re, im>>]
List(xs) == [t |-> "list", v |-> xs]
Dict(pairs) == [t |-> "dict", v |-> pairs]
CPrior(re, im) == [t |-> "cprior", v |-> <<re, im>>]
NoneValue == [t |-> "none", v |-> <<>>]

\* str(i) of a list position
IdxTok(i) == <<"0", "1", "2">>[i + 1]

\* the constructor's argument names, in the order of its signature
CtorParams == <<"n", "r", "center">>
CtorNames == {CtorParams[i] : i \in 1..Len(CtorParams)}

\* CenteredScatterer.__init__, lines 198-200: what the center check raises
CenterCheck(center) ==
    IF center.t /= "none" /\ (center.t \in {"scalar", "complex"} \/ Len(center.v) /= 3)
    THEN "InvalidScatterer" ELSE "none"

\* _expand_parameters, lines 284-303, for one (subkey, par) pair
ExpandOne(name, val) ==
    IF val.t = "list"
    THEN {[key |-> <<name, ".", IdxTok(i - 1)>>, val |-> Sc(val.v[i])]
             : i \in 1..Len(val.v)}
    ELSE IF val.t = "dict"
    THEN {[key |-> <<name, "_", val.v[i][1]>>, val |-> val.v[i][2]]
             : i \in 1..Len(val.v)}
    ELSE IF val.t = "cprior"
    THEN {[key |-> <<name, ".", "real">>, val |-> Sc(val.v[1])],
          [key |-> <<name, ".", "imag">>, val |-> Sc(val.v[2])]}
    ELSE {[key |-> <<name>>, val |-> val]}

\* CenteredScatterer.parameters, line 221: the flat mapping of self._dict
Expand(attrs) == UNION {ExpandOne(name, attrs[name]) : name \in DOMAIN attrs}

\* the value the flat mapping holds under a key
Lookup(raw, key) == (CHOOSE e \in raw : e.key = key).val
HasKey(raw, key) == \E e \in raw : e.key = key

\* extract_pars, lines 252-257: the entries whose key starts with subkey,
\* under what follows the delimiter
Subset(raw, subkey) ==
    {[key |-> SubSeq(e.key, 3, Len(e.key)), val |-> e.val]
        : e \in {x \in raw : x.key[1] = subkey}}

\* [dictform[str(i)] for i in range(len(dictform))], line 265
RECURSIVE ListOf(_, _)
ListOf(sub, i) ==
    IF i >= Cardinality(sub) THEN <<>>
    ELSE <<Lookup(sub, <<IdxTok(i)>>).v[1]>> \o ListOf(sub, i + 1)

\* the pairs of a mapping, in key order
RECURSIVE PairsOf(_, _)
PairsOf(sub, keys) ==
    IF keys = <<>> THEN <<>>
    ELSE (IF HasKey(sub, <<Head(keys)>>)
          THEN <<<<Head(keys), Lookup(sub, <<Head(keys)>>)>>>> ELSE <<>>)
         \o PairsOf(sub, Tail(keys))

DictKeys == <<"a", "b">>

\* extract_pars, lines 245-272, for one subkey: its value, or None where
\* line 272 raises
ExtractOne(raw, subkey) ==
    IF HasKey(raw, <<subkey>>) THEN Lookup(raw, <<subkey>>)
    ELSE LET delimchar == (CHOOSE e \in raw : e.key[1] = subkey).key[2]
             sub == Subset(raw, subkey)
         IN  IF delimchar = "_" THEN Dict(PairsOf(sub, DictKeys))
             ELSE IF HasKey(sub, <<"0">>) THEN List(ListOf(sub, 0))
             ELSE IF HasKey(sub, <<"real">>)
             THEN Complex(Lookup(sub, <<"real">>).v[1],
                          Lookup(sub, <<"imag">>).v[1])
             ELSE NoneValue

\* extract_pars, lines 241-273: the constructor arguments by name
extract_pars(raw) ==
    LET subkeys == {e.key[1] : e \in raw}
        out == [k \in subkeys |-> ExtractOne(raw, k)]
    IN  [exc |-> IF \E k \in subkeys : out[k].t = "none" /\ ~HasKey(raw, <<k>>)
                 THEN "InvalidScatterer" ELSE "none",
         out |-> out]

\* the pairs of the mapping extract_pars returns, in signature order
RECURSIVE ArgPairs(_, _)
ArgPairs(out, names) ==
    IF names = <<>> THEN <<>>
    ELSE (IF Head(names) \in DOMAIN out
          THEN <<<<Head(names), out[Head(names)]>>>> ELSE <<>>)
         \o ArgPairs(out, Tail(names))

\* type(self)(...) called with positional arguments only: each is bound to
\* the signature's name of its position, the other names take their default
CallPositional(args) ==
    LET attrs == [name \in CtorNames |->
                     LET i == CHOOSE j \in 1..Len(CtorParams) : CtorParams[j] = name
                     IN  IF i <= Len(args) THEN args[i] ELSE NoneValue]
    IN  [exc |-> CenterCheck(attrs["center"]), attrs |-> attrs]

\* from_parameters, lines 275-279: self.parameters overlaid with the given
\* parameters, unflattened, and handed to the constructor as one positional
\* argument
from_parameters(attrs, given) ==
    LET mine == Expand(attrs)
        all_pars == {e \in mine : ~HasKey(given, e.key)}
                    \cup {e \in given : HasKey(mine, e.key)}
        ex == extract_pars(all_pars)
    IN  IF ex.exc /= "none" THEN [exc |-> ex.exc, attrs |-> attrs]
        ELSE CallPositional(<<Dict(ArgPairs(ex.out, CtorParams))>>)

\* the attribute values a scatterer is built with
AttrValues(name) ==
    IF name = "n"
    THEN <<Sc(0), Sc(1), Complex(1, 1),
           Dict(<<<<"a", Sc(1)>>, <<"b", Complex(0, 1)>>>>), CPrior(1, 1)>>
    ELSE IF name = "r"
    THEN <<Sc(0), Sc(1), List(<<1, 0>>)>>
    ELSE <<NoneValue, List(<<0, 0, 0>>), List(<<1, 0, 1>>), Sc(1), List(<<1, 0>>)>>

NoFlat == [stage |-> "none", exc |-> "none",
           attrs |-> [name \in CtorNames |-> NoneValue],
           params |-> {}, rebuilt |-> [name \in CtorNames |-> NoneValue]]

\* s = SomeCenteredScatterer(n, r, center)
NewCentered ==
    /\ flat.stage = "none"
    /\ \E pick \in [CtorNames -> 1..5] :
        /\ \A name \in CtorNames : pick[name] <= Len(AttrValues(name))
        /\ LET attrs == [name \in CtorNames |-> AttrValues(name)[pick[name]]]
           IN  flat' = [NoFlat EXCEPT !.stage = "built", !.attrs = attrs,
                                     !.exc = CenterCheck(attrs["center"])]
    /\ UNCHANGED <<paramVars, fitVars, scatVars, tr, mk, vox, fb>>

\* p = s.parameters
ParametersCall ==
    /\ flat.stage = "built"
    /\ flat.exc = "none"
    /\ flat' = [flat EXCEPT !.stage = "flattened", !.params = Expand(flat.attrs)]
    /\ UNCHANGED <<paramVars, fitVars, scatVars, tr, mk, vox, fb>>

\* s.from_parameters(p)
FromParametersCall ==
    /\ flat.stage = "flattened"
    /\ LET r == from_parameters(flat.attrs, flat.params)
       IN  flat' = [flat EXCEPT !.stage = "rebuilt", !.exc = r.exc,
                                !.rebuilt = r.attrs]
    /\ UNCHANGED <<paramVars, fitVars, scatVars, tr, mk, vox, fb>>

(***************************************************************************)
(* Scatterer.translated (scatterer.py)                                     *)
(*                                                                         *)
(* An argument of translated is None, a scalar or a vector: [k, v] with v  *)
(* the numbers it holds.  Coordinates are integers, so every sum is exact. *)
(***************************************************************************)
NoCoord == [k |-> "none", v |-> <<>>]
Scalar(x) == [k |-> "scalar", v |-> <<x>>]
Vector(xs) == [k |-> "vector", v |-> xs]

\* holopy.core.utils: is_none(x) and ensure_array(x), which wraps a scalar
\* in a one-element array
is_none(c) == c.k = "none"
ensure_array(c) == c.v

\* array == x: the array of the elementwise comparisons
EqElementwise(arr, x) == [i \in 1..Len(arr) |-> arr[i] = x]

\* bool(len(a)), the truth value line 77 tests
Truthy(len) == len /= 0

\* self.center + trans_coords, line 86: numpy adds elementwise, spreads a
\* one-element array over the axes and raises ValueError for other lengths
CenterPlus(center, trans) ==
    IF Len(trans) = 3
    THEN [exc |-> "none", v |-> [i \in 1..3 |-> center[i] + trans[i]]]
    ELSE IF Len(trans) = 1
    THEN [exc |-> "none", v |-> [i \in 1..3 |-> center[i] + trans[1]]]
    ELSE [exc |-> "ValueError", v |-> center]

\* lines 77-84: the translation the arguments are read as
TransCoords(coord1, coord2, coord3) ==
    IF is_none(coord2) /\ Truthy(Len(EqElementwise(ensure_array(coord1), 3)))
    THEN [exc |-> "none", v |-> ensure_array(coord1)]
    ELSE IF ~is_none(coord2) /\ ~is_none(coord3)
    THEN [exc |-> "none", v |-> coord1.v \o coord2.v \o coord3.v]
    ELSE [exc |-> "InvalidScatterer", v |-> <<>>]

\* translated with a fault: it moves the receiver itself instead of a copy
Translated_NoCopy(self, coord1, coord2, coord3) ==
    LET t == TransCoords(coord1, coord2, coord3)
        sum == CenterPlus(self.center, t.v)
        moved == [self EXCEPT !.center = sum.v]
    IN  IF t.exc /= "none" THEN [exc |-> t.exc, self |-> self, new |-> self]
        ELSE IF sum.exc /= "none" THEN [exc |-> sum.exc, self |-> self, new |-> self]
        ELSE [exc |-> "none", self |-> moved, new |-> moved]

\* translated, lines 63-87: the receiver after the call and the scatterer
\* returned; new = copy(self) is another object, so line 86 leaves self alone
Translated(self, coord1, coord2, coord3) ==
    LET t == TransCoords(coord1, coord2, coord3)
        sum == CenterPlus(self.center, t.v)
    IN  IF t.exc /= "none" THEN [exc |-> t.exc, self |-> self, new |-> self]
        ELSE IF sum.exc /= "none" THEN [exc |-> sum.exc, self |-> self, new |-> self]
        ELSE [exc |-> "none", self |-> self,
              new |-> [self EXCEPT !.center = sum.v]]

\* the offsets of the three-scalar calls, each with its negation
Offsets == {<<0, 0, 0>>, <<1, 0, 0>>, <<-1, 0, 0>>, <<1, 2, 3>>, <<-1, -2, -3>>}

\* the argument lists translated is called with
TransArgs ==
    {<<Scalar(o[1]), Scalar(o[2]), Scalar(o[3])>> : o \in Offsets}
    \cup {<<Vector(v), NoCoord, NoCoord>>
             : v \in {<<>>, <<1>>, <<1, 2>>, <<1, 2, 3>>, <<1, 2, 3, 4>>}}
    \cup {<<Scalar(1), NoCoord, NoCoord>>,
          <<Scalar(1), Scalar(2), NoCoord>>,
          <<Scalar(1), NoCoord, Scalar(3)>>}

\* the record of one call: its arguments, the receiver before the call,
\* what was raised and the scatterer returned
CallRecord(a, before, r) ==
    [args |-> a, before |-> before, exc |-> r.exc, new |-> r.new]

\* s1 = s.translated(...)
TranslatedCall ==
    /\ scat.exists
    /\ tr = <<>>
    /\ \E a \in TransArgs :
        LET r == Translated(scat, a[1], a[2], a[3])
        IN  /\ scat' = r.self
            /\ tr' = <<CallRecord(a, scat, r)>>
    /\ UNCHANGED <<query, paramVars, fitVars, flat, mk, vox, fb>>

\* s2 = s1.translated(...), on the scatterer the first call returned
TranslatedAgain ==
    /\ Len(tr) = 1
    /\ tr[1].exc = "none"
    /\ \E a \in TransArgs :
        LET r == Translated(tr[1].new, a[1], a[2], a[3])
        IN  tr' = <<[tr[1] EXCEPT !.new = r.self],
                    CallRecord(a, tr[1].new, r)>>
    /\ UNCHANGED <<scat, query, paramVars, fitVars, flat, mk, vox, fb>>

(***************************************************************************)
(* Model.make_scatterer_from_par_values (fit_new.py)                       *)
(***************************************************************************)
\* the argument names inspect.getargspec(self.make_scatterer).args gives
ExpectedArgSets == MakeArgSets \cup {{"alpha"}, {"r", "alpha"}}

\* the values the optimizer hands over, one per parameter
ParValues == {Num(1), Num(2)}

\* the position of the parameter of a name in model.parameters
IndexOfName(ps, name) == CHOOSE i \in 1..Len(ps) : ps[i].name = name

\* lines 108-110: all_pars, each parameter's name with its unscaled value
AllPars(ps, par_values) ==
    {[name |-> ps[i].name, val |-> unscale(ps[i], par_values[i])]
        : i \in 1..Len(ps)}

\* make_scatterer_from_par_values with a fault: it passes all of all_pars
make_scatterer_from_par_values_Unfiltered(ps, args, par_values) ==
    LET unscaled == [i \in 1..Len(ps) |-> unscale(ps[i], par_values[i])]
    IN  IF FirstError(unscaled) /= "none"
        THEN [exc |-> FirstError(unscaled), kwargs |-> {}]
        ELSE IF ~(args \subseteq NamesOf(ps))
        THEN [exc |-> "KeyError", kwargs |-> {}]
        ELSE [exc |-> "none", kwargs |-> AllPars(ps, par_values)]

\* make_scatterer_from_par_values, lines 107-114: what is raised and the
\* keyword arguments make_scatterer is called with
make_scatterer_from_par_values(ps, args, par_values) ==
    LET unscaled == [i \in 1..Len(ps) |-> unscale(ps[i], par_values[i])]
    IN  IF FirstError(unscaled) /= "none"
        THEN [exc |-> FirstError(unscaled), kwargs |-> {}]
        ELSE IF ~(args \subseteq NamesOf(ps))
        THEN [exc |-> "KeyError", kwargs |-> {}]
        ELSE [exc |-> "none",
              kwargs |-> {kw \in AllPars(ps, par_values) : kw.name \in args}]

\* the record of the call: the model's parameters and the arguments at the
\* call, what was raised and what make_scatterer received
NoMake == [op |-> "none", pars |-> <<>>, args |-> {}, par_values |-> <<>>,
           exc |-> "none", kwargs |-> {}]

\* model.make_scatterer_from_par_values(par_values)
MakeScattererCall ==
    /\ pc = "idle"
    /\ mk.op = "none"
    /\ \E args \in ExpectedArgSets, par_values \in [1..Len(parameters) -> ParValues] :
        LET r == make_scatterer_from_par_values(parameters, args, par_values)
        IN  mk' = [op |-> "called", pars |-> parameters, args |-> args,
                   par_values |-> par_values, exc |-> r.exc,
                   kwargs |-> r.kwargs]
    /\ UNCHANGED <<paramVars, fitVars, scatVars, flat, tr, vox, fb>>

(***************************************************************************)
(* Scatterer.voxelate (scatterer.py)                                       *)
(***************************************************************************)
Min(S) == CHOOSE x \in S : \A y \in S : x <= y
Max(S) == CHOOSE x \in S : \A y \in S : x >= y

\* Indicators(functions, bound), lines 361-362: the bound the caller gives,
\* here the box around every cube with a margin of one on each side (the
\* upper end of a slice is excluded), relative to the center
BoundOf(functions) ==
    LET ix == 1..Len(functions)
        lo1 == Min({functions[i].cx - functions[i].r : i \in ix})
        hi1 == Max({functions[i].cx + functions[i].r : i \in ix})
        rr == Max({functions[i].r : i \in ix})
    IN  <<<<lo1 - 1, hi1 + 2>>, <<0 - rr - 1, rr + 2>>, <<0 - rr - 1, rr + 2>>>>

\* Scatterer.bounds, lines 161-164
bounds(s) ==
    LET b == BoundOf(s.indicators)
    IN  [i \in 1..3 |-> <<s.center[i] + b[i][1], s.center[i] + b[i][2]>>]

\* slice(b[0], b[1], s) of np.mgrid: b[0], b[0]+s, ... below b[1]
Slice(b, sp) == {x \in b[1]..(b[2] - 1) : (x - b[1]) % sp = 0}

\* _voxel_coords, lines 166-172, a scalar spacing spread over the axes
voxel_coords(s, spacing) ==
    LET bs == bounds(s)
    IN  Slice(bs[1], spacing) \X Slice(bs[2], spacing) \X Slice(bs[3], spacing)

\* voxelate, line 191: index_at over the grid, with index_at's own default
\* background; medium_index is not handed on
voxelate(s, spacing, medium_index) ==
    [pt \in voxel_coords(s, spacing) |-> index_at(s, pt, Cx(0, 0)).v]

Spacings == {1, 2}

NoVox == [op |-> "none", spacing |-> 1, medium_index |-> Cx(0, 0),
          field |-> <<>>]

\* scatterer.voxelate(spacing, medium_index)
VoxelateCall ==
    /\ scat.exists
    /\ vox.op = "none"
    /\ \E spacing \in Spacings, medium_index \in Backgrounds :
        vox' = [op |-> "voxelate", spacing |-> spacing,
                medium_index |-> medium_index,
                field |-> voxelate(scat, spacing, medium_index)]
    /\ UNCHANGED <<scat, query, paramVars, fitVars, flat, tr, mk, fb>>

(***************************************************************************)
(* find_bounds (scatterer.py)                                              *)
(*                                                                         *)
(* Lengths are exact rationals in units of the seed, 1e-9.  An indicator   *)
(* is a union of boxes with integer corners, each <<lo, hi>> per axis; it  *)
(* is true on a bounded region.                                            *)
(***************************************************************************)
Leq(a, b) == a.n * b.d <= b.n * a.d

Inside(box, pt) ==
    \A k \in 1..3 : Leq(Num(box[k][1]), pt[k]) /\ Leq(pt[k], Num(box[k][2]))

\* indicator(point)
indicator(shape, pt) == \E b \in 1..Len(shape) : Inside(shape[b], pt)

Cube(lo, hi) == <<<<lo, hi>>, <<lo, hi>>, <<lo, hi>>>>

\* the indicators find_bounds is called with: cubes around the origin, a
\* box off its middle, a box away from the origin, two boxes in a row along
\* x, and the origin alone
Shapes ==
    {<<Cube(0 - 5, 5)>>,
     <<Cube(0 - 1, 1)>>,
     <<<<<<0 - 20, 3>>, <<0 - 1, 12>>, <<0 - 7, 7>>>>>>,
     <<<<<<2, 5>>, <<0 - 1, 1>>, <<0 - 1, 1>>>>>>,
     <<Cube(0 - 1, 1), <<<<8, 12>>, <<0 - 1, 1>>, <<0 - 1, 1>>>>>>,
     <<Cube(0, 0)>>}

\* line 318: bounds starts as the seeds
SeedBounds == [i \in 1..3 |-> <<Num(0 - 1), Num(1)>>]

\* lines 321-322: point = np.zeros(3); point[i] = x
PointAt(i, x) == [k \in 1..3 |-> IF k = i THEN x ELSE Num(0)]

\* Grow with a fault: it doubles
Grow_Double(x) == Mul(x, Num(2))

\* line 325: point[i] *= 10
Grow(x) == Mul(x, Num(10))

\* line 328: point[i] /= 2
Halve(x) == Div(x, Num(2))

\* line 331: point[i] *= 1.1
Creep(x) == Mul(x, Rat(11, 10, FALSE))

\* line 327: the halving loop's limit
MaxHalvings == 10

NoFb == [pc |-> "idle", indicator |-> <<>>, i |-> 1, j |-> 1,
         point |-> Num(0), iter |-> 0, bounds |-> SeedBounds]

\* find_bounds(indicator), lines 318-322: the first pass begins
FindBoundsCall ==
    /\ fb.pc = "idle"
    /\ \E shape \in Shapes :
        fb' = [NoFb EXCEPT !.pc = "grow", !.indicator = shape,
                           !.point = SeedBounds[1][1]]
    /\ UNCHANGED <<paramVars, fitVars, scatVars, flat, tr, mk, vox>>

\* lines 324-326: one test of the first loop
GrowLoop ==
    /\ fb.pc = "grow"
    /\ IF indicator(fb.indicator, PointAt(fb.i, fb.point))
       THEN fb' = [fb EXCEPT !.point = Grow(fb.point)]
       ELSE fb' = [fb EXCEPT !.pc = "halve", !.iter = 0]
    /\ UNCHANGED <<paramVars, fitVars, scatVars, flat, tr, mk, vox>>

\* lines 327-329: one test of the second loop
HalveLoop ==
    /\ fb.pc = "halve"
    /\ IF ~indicator(fb.indicator, PointAt(fb.i, fb.point)) /\ fb.iter < MaxHalvings
       THEN fb' = [fb EXCEPT !.point = Halve(fb.point), !.iter = fb.iter + 1]
       ELSE fb' = [fb EXCEPT !.pc = "creep"]
    /\ UNCHANGED <<paramVars, fitVars, scatVars, flat, tr, mk, vox>>

\* lines 330-332 and the loop heads 319-322: one test of the third loop;
\* when it fails the bound is stored and the next pass begins, or
\* find_bounds returns
CreepLoop ==
    /\ fb.pc = "creep"
    /\ IF indicator(fb.indicator, PointAt(fb.i, fb.point))
       THEN fb' = [fb EXCEPT !.point = Creep(fb.point)]
       ELSE LET stored == [fb.bounds EXCEPT ![fb.i][fb.j] = fb.point]
            IN  IF fb.j = 1
                THEN fb' = [fb EXCEPT !.bounds = stored, !.pc = "grow", !.j = 2,
                                      !.point = stored[fb.i][2]]
                ELSE IF fb.i < 3
                THEN fb' = [fb EXCEPT !.bounds = stored, !.pc = "grow",
                                      !.i = fb.i + 1, !.j = 1,
                                      !.point = stored[fb.i + 1][1]]
                ELSE fb' = [fb EXCEPT !.bounds = stored, !.pc = "done"]
    /\ UNCHANGED <<paramVars, fitVars, scatVars, flat, tr, mk, vox>>

(***************************************************************************)
(* The specifications                                                      *)
(***************************************************************************)
ParamIdle == par = NoParameter /\ calc = NoCalc
FitIdle ==
    /\ parameters = <<>>
    /\ model = NoModel
    /\ algorithm = "nmpfit"
    /\ pc = "idle"
    /\ nmp_pars = <<>>
    /\ exc = "none"
    /\ solverCalls = 0
    /\ costCalls = 0
    /\ min_ret = NoReturn
    /\ result = NoResult
ScatIdle == scat = NoScatterer /\ query = NoQuery
FlatIdle == flat = NoFlat
TransIdle == tr = <<>>
MakeIdle == mk = NoMake
VoxIdle == vox = NoVox
BoundsIdle == fb = NoFb

Init ==
    /\ ParamIdle /\ FitIdle /\ ScatIdle
    /\ FlatIdle /\ TransIdle /\ MakeIdle /\ VoxIdle /\ BoundsIdle

NextParam == NewParameter \/ ScaleCall \/ UnscaleCall
SpecParam == Init /\ [][NextParam]_vars

NextFit == AddParameter \/ FitCall \/ CostEval \/ SolverReturn
SpecFit == Init /\ [][NextFit]_vars

NextScat == NewScatterer \/ InDomainCall \/ IndexAtCall
SpecScat == Init /\ [][NextScat]_vars

NextTrans == NewScatterer \/ TranslatedCall \/ TranslatedAgain
SpecTrans == Init /\ [][NextTrans]_vars

NextMake == AddParameter \/ MakeScattererCall
SpecMake == Init /\ [][NextMake]_vars

NextVox == NewScatterer \/ VoxelateCall
SpecVox == Init /\ [][NextVox]_vars

\* find_bounds runs to its end: a step that can be taken is taken
NextBounds == FindBoundsCall \/ GrowLoop \/ HalveLoop \/ CreepLoop
SpecBounds == Init /\ [][NextBounds]_vars /\ WF_vars(NextBounds)

NextFlat == NewCentered \/ ParametersCall \/ FromParametersCall
SpecFlat == Init /\ [][NextFlat]_vars

(***************************************************************************)
(* Claims about Minimizer.minimize and fit, under SpecFit                  *)
(***************************************************************************)
ConvergedCodes == {1, 2, 3}
SpecifiedErrors ==
    {"InvalidParameterSpecification", "InvalidScatterer"} \cup TheoryErrors

\* C1: whenever minimize has returned, a solver status in {1,2,3} gave
\* converged = True and a status >= 4 gave converged = False.
C1_ConvergedThreshold ==
    min_ret.returned =>
        /\ min_ret.status \in ConvergedCodes => min_ret.converged
        /\ min_ret.status >= 4 => ~min_ret.converged

\* minimize has returned from a solver run that ended with status 4
C1_Witness ==
    min_ret.returned /\ min_ret.status = 4 /\ ~min_ret.converged

\* C2: whenever fit has returned after a solver run whose status is not one
\* of 1, 2, 3, the FitResult's converged field is False.
C2_NonConvergenceReported ==
    (pc = "returned" /\ min_ret.status \notin ConvergedCodes)
        => ~result.converged

\* C3: whenever minimize has run with 'nmpfit' on a list in which some
\* Parameter has no guess, it raised InvalidParameterSpecification, and
\* neither the solver nor the cost function was invoked.  (Stated for the
\* lists in which no guess is 0: scale() cannot divide by that one, see C7.)
C3_MissingGuessRaises ==
    (/\ pc /= "idle"
     /\ algorithm = "nmpfit"
     /\ \E i \in 1..Len(parameters) : IsNone(parameters[i].guess)
     /\ \A i \in 1..Len(parameters) : parameters[i].guess /= Num(0))
        => /\ pc = "raised"
           /\ exc = "InvalidParameterSpecification"
           /\ solverCalls = 0
           /\ costCalls = 0

\* C4: whenever fit has ended, it returned a FitResult with every field
\* set, or it raised one of the specified error kinds.
C4_TwoOutcomes ==
    pc \in {"returned", "raised"} =>
        \/ pc = "returned" /\ result.fields = FitResultFields
        \/ pc = "raised" /\ exc \in SpecifiedErrors

\* C5: whenever minimize has run with 'nmpfit', every Parameter with a
\* guess that the loop came to has its entry built, with the lower (upper)
\* flag true exactly when the lower (upper) side of its limit is present.
\* (Stated for the guesses other than 0: scale() cannot divide by that one,
\* see C7.)
C5_BoundFlags ==
    (pc /= "idle" /\ algorithm = "nmpfit") =>
        \A i \in 1..Len(parameters) :
            (/\ ~IsNone(parameters[i].guess)
             /\ parameters[i].guess /= Num(0)
             /\ i <= Len(nmp_pars) + 1) =>
                /\ i <= Len(nmp_pars)
                /\ nmp_pars[i].limited =
                       <<parameters[i].limit.given
                             /\ ~IsNone(parameters[i].limit.lo),
                         parameters[i].limit.given
                             /\ ~IsNone(parameters[i].limit.hi)>>

(***************************************************************************)
(* Claims about Parameter, under SpecParam                                 *)
(***************************************************************************)
\* C6: a Parameter(...) call with neither guess nor limit raises
\* InvalidParameterSpecification, and a call with a guess or a limit
\* succeeds.
C6_ConstructionOutcome ==
    par.exc /= "nocall" =>
        IF IsNone(par.guess) /\ ~par.limit.given
        THEN par.exc = "InvalidParameterSpecification"
        ELSE par.exc = "none"

\* C7: on every constructed Parameter, scale and unscale of a finite number
\* return a number, and applying one to the other's result gives back the
\* number started from.
C7_ExactInverses ==
    (par.exc = "none" /\ calc.op /= "none") =>
        /\ IsNum(calc.res)
        /\ ~IsNone(calc.src) => NumEq(calc.res, calc.src)

\* C8: a constructed Parameter's scale_factor is its guess when a guess was
\* given, and otherwise the non-negative square root of lo*hi.
C8_ScaleFactor ==
    par.exc = "none" =>
        /\ ~IsNone(par.guess) => par.scale_factor = par.guess
        /\ IsNone(par.guess) =>
               /\ par.limit.given
               /\ IsNum(par.scale_factor)
               /\ par.scale_factor.n >= 0
               /\ par.scale_factor.n * par.scale_factor.n
                      = par.limit.lo.n * par.limit.hi.n
                            * par.scale_factor.d * par.scale_factor.d

\* a Parameter constructed from a limit alone, with a non-zero scale factor
C8_Witness ==
    /\ par.exc = "none"
    /\ IsNone(par.guess)
    /\ par.limit.given
    /\ par.scale_factor.n > 0

(***************************************************************************)
(* Claims about Scatterer, under SpecScat                                  *)
(***************************************************************************)
\* the list positions whose indicator is true at the point
TrueAt(s, pt) ==
    {i \in 1..Len(s.indicators) : Test(s.indicators[i], Minus(pt, s.center))}

\* C9: in_domain returns 0 where no indicator is true, and otherwise the
\* smallest list position (counted from 1) whose indicator is true.
C9_FirstTrueWins ==
    query.op = "in_domain" =>
        LET trues == TrueAt(scat, query.point)
        IN  IF trues = {} THEN query.domain = 0
            ELSE /\ query.domain \in trues
                 /\ \A i \in trues : query.domain <= i

\* in_domain was asked about a point inside both the first and the second
\* indicator's region
C9_Witness ==
    /\ query.op = "in_domain"
    /\ {1, 2} \subseteq TrueAt(scat, query.point)
    /\ query.domain = 1

\* C10: for a scatterer with one refractive index per domain, index_at
\* returns n[i-1] at a point of domain i >= 1 and background at a point of
\* domain 0.
C10_IndexOfDomain ==
    (query.op = "index_at" /\ Len(scat.n) = Len(scat.indicators)) =>
        /\ query.domain = in_domain(scat, query.point)
        /\ query.domain >= 1 =>
               /\ query.index.re = scat.n[query.domain].re
               /\ query.index.im = scat.n[query.domain].im
        /\ query.domain = 0 =>
               /\ query.index.re = query.background.re
               /\ query.index.im = query.background.im

\* index_at was asked about a point of the second domain, whose index
\* differs from the first domain's and from the background
C10_Witness ==
    /\ query.op = "index_at"
    /\ Len(scat.n) = 2
    /\ Len(scat.indicators) = 2
    /\ query.domain = 2
    /\ scat.n[1] /= scat.n[2]
    /\ query.index = scat.n[2]
    /\ query.index /= query.background


(***************************************************************************)
(* Claims about CenteredScatterer, under SpecFlat                          *)
(***************************************************************************)
\* equal attribute values
RECURSIVE SameValue(_, _)
SameValue(a, b) ==
    /\ a.t = b.t
    /\ Len(a.v) = Len(b.v)
    /\ IF a.t = "dict"
       THEN \A i \in 1..Len(a.v) :
                a.v[i][1] = b.v[i][1] /\ SameValue(a.v[i][2], b.v[i][2])
       ELSE a.v = b.v

\* C11: from_parameters applied to a scatterer's own parameters returns a
\* scatterer whose every attribute equals the original's.
C11_RoundTrip ==
    flat.stage = "rebuilt" =>
        /\ flat.exc = "none"
        /\ \A name \in CtorNames : SameValue(flat.rebuilt[name], flat.attrs[name])


(***************************************************************************)
(* Claims about Scatterer.translated, under SpecTrans                      *)
(***************************************************************************)
ThreeScalars(a) == \A i \in 1..3 : a[i].k = "scalar"
SingleScalar(a) == a[1].k = "scalar" /\ is_none(a[2]) /\ is_none(a[3])
SingleVector(a) == a[1].k = "vector" /\ is_none(a[2]) /\ is_none(a[3])
TwoCoordinates(a) == ~is_none(a[1]) /\ ~is_none(a[2]) /\ is_none(a[3])
Negated(a, b) == \A i \in 1..3 : b[i].v[1] = 0 - a[i].v[1]

\* C12: a call of translated with a single scalar, with a single vector
\* whose length is not 3, or with exactly two coordinates raises
\* InvalidScatterer and returns no scatterer.
C12_AmbiguousShapeRaises ==
    \A i \in 1..Len(tr) :
        (\/ SingleScalar(tr[i].args)
         \/ SingleVector(tr[i].args) /\ Len(tr[i].args[1].v) /= 3
         \/ TwoCoordinates(tr[i].args))
        => tr[i].exc = "InvalidScatterer"

\* C13: translating by (dx, dy, dz) and then by (-dx, -dy, -dz) returns a
\* scatterer whose center is the original's, and the original scatterer has
\* the center, indicators and n it had before the two calls.
C13_TranslateBack ==
    /\ \A i \in 1..Len(tr) :
          ThreeScalars(tr[i].args) => tr[i].exc = "none"
    /\ Len(tr) >= 1 => scat = tr[1].before
    /\ (/\ Len(tr) = 2
        /\ ThreeScalars(tr[1].args) /\ ThreeScalars(tr[2].args)
        /\ Negated(tr[1].args, tr[2].args))
       => /\ tr[2].new.center = scat.center
          /\ tr[2].new.indicators = scat.indicators
          /\ tr[2].new.n = scat.n
          /\ tr[1].new = tr[2].before

C13_Witness ==
    /\ Len(tr) = 2
    /\ scat.center = <<1, 1, 1>>
    /\ tr[1].args = <<Scalar(1), Scalar(2), Scalar(3)>>
    /\ tr[1].new.center = <<2, 3, 4>>
    /\ tr[2].args = <<Scalar(-1), Scalar(-2), Scalar(-3)>>
    /\ tr[2].new.center = <<1, 1, 1>>


(***************************************************************************)
(* Claims about Model.make_scatterer_from_par_values, under SpecMake       *)
(***************************************************************************)
\* C14: make_scatterer is called with exactly the argument names it expects,
\* each bound to the model parameter of that name unscaled by its own
\* Parameter; no other model parameter is passed; and the call fails with
\* KeyError when an expected name is no model parameter's name.
C14_ExactlyExpectedArgs ==
    mk.op = "called" =>
        /\ ~(mk.args \subseteq NamesOf(mk.pars))
              => mk.exc = "KeyError" /\ mk.kwargs = {}
        /\ mk.args \subseteq NamesOf(mk.pars)
              => /\ mk.exc = "none"
                 /\ {kw.name : kw \in mk.kwargs} = mk.args
                 /\ \A kw \in mk.kwargs :
                       LET i == IndexOfName(mk.pars, kw.name)
                       IN  kw.val = Mul(mk.par_values[i],
                                        mk.pars[i].scale_factor)

C14_Witness ==
    /\ mk.op = "called"
    /\ mk.exc = "none"
    /\ mk.args = {"r"}
    /\ NamesOf(mk.pars) = {"r", "alpha"}
    /\ \E kw \in mk.kwargs :
          /\ kw.name = "r"
          /\ ~NumEq(kw.val, mk.par_values[IndexOfName(mk.pars, "r")])


(***************************************************************************)
(* Claims about Scatterer.voxelate, under SpecVox                          *)
(***************************************************************************)
\* C15: in the field voxelate(spacing, medium_index) returns, for a
\* scatterer with one refractive index per domain, every grid point outside
\* all domains holds medium_index and every grid point of domain i holds
\* n[i-1].
C15_VoxelField ==
    (vox.op = "voxelate" /\ Len(scat.n) = Len(scat.indicators)) =>
        \A pt \in DOMAIN vox.field :
            LET domain == in_domain(scat, pt)
            IN  /\ domain = 0 => vox.field[pt] = vox.medium_index
                /\ domain >= 1 => vox.field[pt] = scat.n[domain]


(***************************************************************************)
(* Claims about find_bounds, under SpecBounds                              *)
(***************************************************************************)
\* x times factor, again and again while the indicator is true
RECURSIVE GrownBy(_, _, _, _)
GrownBy(shape, i, x, factor) ==
    IF indicator(shape, PointAt(i, x))
    THEN GrownBy(shape, i, Mul(x, Num(factor)), factor) ELSE x

\* x halved while the indicator is false, at most ten times
RECURSIVE HalvedFrom(_, _, _, _)
HalvedFrom(shape, i, x, iter) ==
    IF ~indicator(shape, PointAt(i, x)) /\ iter < 10
    THEN HalvedFrom(shape, i, Div(x, Num(2)), iter + 1) ELSE x

\* x grown by 10% while the indicator is true
RECURSIVE CreptFrom(_, _, _)
CreptFrom(shape, i, x) ==
    IF indicator(shape, PointAt(i, x))
    THEN CreptFrom(shape, i, Mul(x, Rat(11, 10, FALSE))) ELSE x

\* the six bounds of the three-phase procedure with the given first factor
ProcedureBounds(shape, factor) ==
    [i \in 1..3 |->
        [j \in 1..2 |->
            CreptFrom(shape, i,
                HalvedFrom(shape, i,
                    GrownBy(shape, i, SeedBounds[i][j], factor), 0))]]

\* C16 as stated: find_bounds terminates for every bounded indicator, and
\* each of the six bounds is the seed doubled while the indicator is true,
\* then halved while it is false, at most 10 times, then grown by 10% steps.
C16_DoublingProcedure ==
    /\ <>(fb.pc = "done")
    /\ [](fb.pc = "done" => fb.bounds = ProcedureBounds(fb.indicator, 2))

\* C16, amended: find_bounds terminates for every bounded indicator, and
\* each of the six bounds is the seed multiplied by 10 while the indicator
\* is true, then halved while it is false, at most 10 times, then grown by
\* 10% steps while it is true.
C16_TenfoldProcedure ==
    /\ <>(fb.pc = "done")
    /\ [](fb.pc = "done" => fb.bounds = ProcedureBounds(fb.indicator, 10))

\* find_bounds returned for the cube [-5, 5]^3: 1, 10, then 5, then 5.5
C16_Witness ==
    /\ fb.pc = "done"
    /\ fb.indicator = <<Cube(0 - 5, 5)>>
    /\ fb.bounds[1][2] = Rat(11, 2, FALSE)
    /\ fb.bounds[3][1] = Rat(0 - 11, 2, FALSE)

====
